---- MODULE Spec2Model ----
(***************************************************************************)
(* Model of backend/watson/middleware/jwt_auth.py: the JWKS cache           *)
(* (JWKSCache), the key resolver (get_jwks_keys, get_public_key), the       *)
(* token verifier (verify_jwt_token) and clear_jwks_cache, run by several   *)
(* request threads that share the module-level cache _jwks_cache, and the  *)
(* two entry points that serve a request: JWTAuthentication.authenticate   *)
(* and JWTAuthenticationMiddleware.__call__.                               *)
(*                                                                         *)
(* Python values are records tagged by a field t, so that None, dicts and  *)
(* keys can be compared with each other.                                   *)
(***************************************************************************)
EXTENDS Integers, Sequences, FiniteSets, TLC

\* ------------------------------------------------------------------ bounds
\* last instant of the simulated clock (datetime.now() is read as `now`)
MaxTime == 2

\* JWKS_CACHE_TTL_SECONDS, scaled to the simulated clock
JWKS_CACHE_TTL_SECONDS == 1

Threads == {"t1", "t2"}
NoThread == "free"

\* ------------------------------------------------------------ Python values
None == [t |-> "None"]

\* None in the field _expires_at, whose other values are instants >= 0
NoInstant == -1

\* a JWKS entry {"kid": kid, ...key material...}
Entry(kid, mat) == [kid |-> kid, mat |-> mat]

\* a JSON object; has = whether it has the member 'keys'
JDict(ks) == [t |-> "dict", has |-> TRUE, keys |-> ks]

\* the literal {} returned when no key document could be obtained
EmptyDict == [t |-> "dict", has |-> FALSE, keys |-> << >>]

\* {'static_key': JWT_PUBLIC_KEY}: a dict without the member 'keys'
StaticDict == [t |-> "dict", has |-> FALSE, keys |-> << >>, static_key |-> TRUE]

\* a verification key built from key material
Key(mat) == [t |-> "key", mat |-> mat]

\* the PEM given in the environment variable JWT_PUBLIC_KEY
StaticKey == Key("ms")

\* documents the identity provider publishes; DocB is a rotation of DocA
\* that repeats kid k2 with two different materials
DocA == << Entry("k1", "m1"), Entry("k2", "m2") >>
DocB == << Entry("k2", "m3"), Entry("k1", "m1"), Entry("k2", "m2") >>
\* DocC has an entry with malformed key material, an entry without kid and
\* a second entry for kid k3
DocC == << Entry("k3", "bad"), Entry("", "m1"), Entry("k3", "m4") >>
Docs == {DocA, DocB, DocC}

\* tokens: header kid ("" = header without kid), the material of the key
\* that signed it, and the claims
Jwt(kid, sig, expired, claimsOk) ==
    [t |-> "jwt", kid |-> kid, sig |-> sig, expired |-> expired, claimsOk |-> claimsOk]
TokEmpty   == [t |-> "empty"]
TokGarbage == [t |-> "garbage"]
TokK1      == Jwt("k1", "m1", FALSE, TRUE)
TokK2      == Jwt("k2", "m2", FALSE, TRUE)
TokK3      == Jwt("k3", "bad", FALSE, TRUE)
TokNoKid   == Jwt("", "m1", FALSE, TRUE)
\* signed by the private key of JWT_PUBLIC_KEY, header without kid
TokStatic  == Jwt("", "ms", FALSE, TRUE)
\* create_test_token(exp_offset=-3600): correctly signed, exp in the past
TokExpired == Jwt("k1", "m1", TRUE, TRUE)
\* create_test_token(iss=..., aud=...) with values that are not the configured ones
TokBadClaims == Jwt("k1", "m1", FALSE, FALSE)
TokExpiredBadClaims == Jwt("k1", "m1", TRUE, FALSE)
\* header kid k1, signed by a private key that is not the one of k1
TokForged == Jwt("k1", "mx", FALSE, TRUE)
TokForgedExpired == Jwt("k1", "mx", TRUE, FALSE)
\* signed by the private key of JWT_PUBLIC_KEY, exp in the past
TokStaticExpired == Jwt("", "ms", TRUE, TRUE)
Tokens == {TokEmpty, TokGarbage, TokK1, TokK2, TokK3, TokNoKid, TokStatic,
           TokExpired, TokBadClaims, TokExpiredBadClaims, TokForged,
           TokForgedExpired, TokStaticExpired}

\* the claim map in the payload segment of a token: sub, email, role, exp,
\* iss and aud as create_test_token writes them, and a claim this module
\* never names (iat)
Claims(token) ==
    [sub   |-> "user-123",
     email |-> "test@example.com",
     role  |-> "clinician",
     iat   |-> "issued",
     exp   |-> IF token.expired THEN "past" ELSE "future",
     iss   |-> IF token.claimsOk THEN "https://passport.oceanheart.ai" ELSE "other-issuer",
     aud   |-> IF token.claimsOk THEN "watson.oceanheart.ai" ELSE "other-audience"]

\* ------------------------------------------------------ headers and paths
\* An Authorization header value is a sequence of items: the words of the
\* value, a token being one word, and single whitespace characters.  The
\* empty sequence is the empty string, which is also what
\* request.META.get('HTTP_AUTHORIZATION', '') gives for an absent header.
\* No value below has two words without whitespace between them.
W(w) == [t |-> "word", w |-> w]
SP == [t |-> "space"]

\* the header f'Bearer {token}' (tests.py, line 177)
BearerHeader(k) == << W("Bearer"), SP, k >>

\* the tokens put in well-formed headers
HeaderTokens == {TokK1, TokExpired, TokForged, TokGarbage, TokStatic}

Headers ==
    {BearerHeader(k) : k \in HeaderTokens} \cup
    { << >>,                                     \* no header
      << W("Basic"), SP, W("dXNlcjpwYXNz") >>,   \* 'Basic dXNlcjpwYXNz'
      << W("bearer"), SP, TokK1 >>,              \* 'bearer <token>'
      << W("Bearer"), SP >>,                     \* 'Bearer '
      << W("Bearer") >>,                         \* 'Bearer'
      << W("Bearer"), SP, SP, TokK1 >>,          \* 'Bearer  <token>'
      << W("Bearer"), SP, TokK1, SP, W("x") >>,  \* 'Bearer <token> x'
      << TokK1 >> }                              \* '<token>'

\* a request path is the sequence of its slashes and segments
PUBLIC_PATHS ==
    { << "/", "health", "/" >>, << "/", "ready", "/" >>,
      << "/", "admin", "/" >>,  << "/", "api", "/" >> }

Paths ==
    { << "/", "health", "/" >>,
      << "/", "api", "/", "reviews", "/" >>,
      << "/", "health" >>,
      << "/", "app", "/", "health", "/" >> }

\* the value of `token` when verify_jwt_token was not called, and when it
\* was called with the string s
NotCalled == [called |-> FALSE, s |-> << >>]
Called(s) == [called |-> TRUE, s |-> s]

\* a request attribute that was never set (hasattr is False)
Absent == [t |-> "absent"]

\* no return yet
Pending == [t |-> "pending"]

\* the response self.get_response(request) returns
Response == [t |-> "response"]

\* the pair (user, token) authenticate returns
Pair(user, s) == [t |-> "tuple", user |-> user, token |-> s]

\* raise exceptions.AuthenticationFailed(detail)
AuthenticationFailed(detail) == [t |-> "raise", exc |-> "AuthenticationFailed", detail |-> detail]

\* payload.get(name, default)
Get(payload, name, default) == IF name \in DOMAIN payload THEN payload[name] ELSE default

\* JWTUser(payload), lines 81-88
JWTUser(payload) ==
    [t |-> "user",
     id |-> Get(payload, "sub", ""),
     email |-> Get(payload, "email", ""),
     role |-> Get(payload, "role", "user"),
     claims |-> payload,
     is_authenticated |-> TRUE]

\* an HTTP response: its status, whether the body of the view ran, the
\* WWW-Authenticate header and the detail of the error body
HttpResponse(status, ran, www, detail) ==
    [status |-> status, ran |-> ran, www |-> www, detail |-> detail]
NoResponse == HttpResponse(0, FALSE, "", "")

\* JWTAuthentication.authenticate_header, lines 270-274
AuthenticateHeader == "Bearer realm=\"watson-api\""

\* the calls a request thread can make into the module
Ops == {"verify", "resolve", "jwks", "clear"}

\* the entry points that serve a request: authenticate() and the
\* middleware on their own, a view with authentication_classes =
\* [JWTAuthentication] and permission_classes = [IsAuthenticated], and the
\* middleware in front of a view wrapped by require_jwt_auth
RequestOps == {"authenticate", "gate", "drf", "gate_view"}

\* what the threads of a run are given to do: which threads serve requests,
\* which calls they make, with which tokens, which documents the endpoint
\* serves and whether JWT_PUBLIC_KEY is configured
ConcurrentMenu ==
    [threads |-> Threads, ops |-> {"verify", "clear"}, tokens |-> {TokK2},
     docs |-> {DocA, DocB}, static |-> {None, StaticKey},
     headers |-> {}, paths |-> {}]
SequentialMenu ==
    [threads |-> {"t1"}, ops |-> Ops \cup RequestOps, tokens |-> Tokens,
     docs |-> Docs, static |-> {None, StaticKey},
     headers |-> Headers, paths |-> Paths]

\* every sequence over S of length at most n
SeqsUpTo(S, n) == UNION {[1..m -> S] : m \in 0..n}

\* longest document and the entries of the documents drawn for the scan of
\* get_public_key
MaxDocLen == 3
EntryPool == {Entry("k1", "m1"), Entry("k2", "m2"), Entry("k2", "m3"),
              Entry("k3", "bad"), Entry("", "m1")}
ScanDocs == SeqsUpTo(EntryPool, MaxDocLen)
ScanMenu ==
    [threads |-> {"t1"}, ops |-> {"verify", "resolve"}, tokens |-> {TokK1, TokK2, TokK3},
     docs |-> ScanDocs, static |-> {None}, headers |-> {}, paths |-> {}]

\* outcomes of requests.get(...), raise_for_status() and response.json()
\* ("notdict": the body is JSON but not an object, such as [] or null)
FetchOutcomes == {"ok", "network", "timeout", "http", "badjson", "notdict"}

\* the triple (is_valid, payload, error_message)
Valid(payload) == [t |-> "result", is_valid |-> TRUE, payload |-> payload, error |-> "None"]
\* a failure return that gives no reason
Invalid_NoReason(msg) == [t |-> "result", is_valid |-> FALSE, payload |-> None, error |-> "None"]
Invalid(msg)   == [t |-> "result", is_valid |-> FALSE, payload |-> None, error |-> msg]
\* an exception that escapes the called function
Raised(exc)    == [t |-> "raise", exc |-> exc]

VARIABLES
    menu,            \* the menu of the run, fixed by Init
    JWT_PUBLIC_KEY,  \* the static override key, None when not configured
    now,             \* datetime.now()
    published,       \* the document the JWKS endpoint currently serves
    keys,            \* _jwks_cache._keys
    expires_at,      \* _jwks_cache._expires_at  (None or an instant)
    lock,            \* _jwks_cache._lock: the thread holding it, or NoThread
    pc,              \* position of each thread
    op,              \* the call each thread is serving
    tok,             \* the token argument
    cached,          \* local `cached` of get_jwks_keys
    resp,            \* local `jwks` of get_jwks_keys after response.json()
    jwks,            \* value returned by get_jwks_keys
    key,             \* value returned by get_public_key
    result,          \* value returned by the call
    fail,            \* how the fetch of this call failed: "" (it did not), "request"
                     \* (network error, timeout, HTTP error status) or "badjson"
    fbSeen,          \* what line 132 read from _jwks_cache._keys
    fbStale,         \* history: the entry had outlived its TTL when line 132 ran
    lastWrite,       \* history: the last completed set()/clear(): its argument,
                     \* the instant it read, and for clear() the expiry it erased
    got,             \* history: the instant, the lastWrite and the keysPre of this
                     \* thread's get()
    keysPre,         \* history: the cached document was fetched before the last clear()
    respPre,         \* history: this thread's fetched document predates the last clear()
    inFlight,        \* history: this call had started when the last clear() completed
    rotatedAt,       \* history: the instant of the last rotation of the published set
    lateStart,       \* history: this call of get_jwks_keys began more than a TTL after
                     \* the last rotation, and nothing was rotated since
    fetches,         \* history: how many times this call ran requests.get
    auth_header,     \* request.META.get('HTTP_AUTHORIZATION', '') of the request served
    path,            \* request.path
    token_str,       \* the string the Adapter or the Gate passed to verify_jwt_token
    jwt_user,        \* request.jwt_user
    jwt_error,       \* request.jwt_error
    ret,             \* what authenticate() or the middleware returned or raised
    handled,         \* how many times the middleware called self.get_response
    http             \* the HTTP response of the protected view or of its wrapper

vars == << menu, JWT_PUBLIC_KEY, now, published, keys, expires_at, lock, pc, op, tok,
           cached, resp, jwks, key, result, fail, fbSeen, fbStale,
           lastWrite, got, keysPre, respPre, inFlight, rotatedAt, lateStart, fetches,
           auth_header, path, token_str, jwt_user, jwt_error, ret, handled, http >>

reqVars   == << auth_header, path, token_str, jwt_user, jwt_error, ret, handled, http >>
cacheVars == << keys, expires_at, lock >>
rotVars   == << rotatedAt, lateStart, fetches >>
histVars  == << fbStale, lastWrite, got, keysPre, respPre, inFlight, rotVars >>
envVars   == << menu, JWT_PUBLIC_KEY, now, published >>

\* ------------------------------------------------------- pure functions
\* a get() that never expires an entry
CacheGetResult_NoExpiry(k, e, n) == k

\* JWKSCache.get, the value returned for fields (k, e) read at instant n
CacheGetResult(k, e, n) ==
    IF k = None THEN None
    ELSE IF e # NoInstant /\ n > e THEN None
    ELSE k

\* a set() that stamps the entry with the instant of the write
ExpiresAt_NoTTL(n) == n

\* JWKSCache.set: datetime.now() + self._ttl
ExpiresAt(n) == n + JWKS_CACHE_TTL_SECONDS

\* jwks.get('keys', [])
KeysOf(d) == IF d.has THEN d.keys ELSE << >>

\* jwk.construct(key); malformed key material raises JWKError -> None
Construct(e) == IF e.mat = "bad" THEN None ELSE Key(e.mat)

\* a scan in which the last matching entry wins
RECURSIVE FindKey_LastMatch(_, _)
FindKey_LastMatch(ks, kid) ==
    IF ks = << >> THEN None
    ELSE IF ks[Len(ks)].kid = kid THEN Construct(ks[Len(ks)])
    ELSE FindKey_LastMatch(SubSeq(ks, 1, Len(ks) - 1), kid)

\* the for loop of get_public_key over the entries ks
RECURSIVE FindKey(_, _)
FindKey(ks, kid) ==
    IF ks = << >> THEN None
    ELSE IF Head(ks).kid = kid THEN Construct(Head(ks))
    ELSE FindKey(Tail(ks), kid)

\* a decode that hands back only the claims JWTUser names
DecodedClaims_NamedOnly(token) ==
    [sub |-> Claims(token).sub, email |-> Claims(token).email, role |-> Claims(token).role]

\* the payload jwt.decode returns (lines 197 and 216): the claim map parsed
\* from the payload segment
DecodedClaims(token) == Claims(token)

\* a decode that accepts every signature
SignatureOk_Any(token, k) == TRUE

\* the RS256 signature of the token verifies under key k
SignatureOk(token, k) == token.sig = k.mat

\* a decode that never looks at exp
ExpiredAt_Never(token) == FALSE

\* exp is in the past: jwt.decode raises ExpiredSignatureError
ExpiredAt(token) == Get(DecodedClaims(token), "exp", "none") = "past"

\* iss and aud equal PASSPORT_ISSUER and PASSPORT_AUDIENCE (lines 200-201, 219-220)
IssAudOk(token) ==
    /\ Get(DecodedClaims(token), "iss", "none") = "https://passport.oceanheart.ai"
    /\ Get(DecodedClaims(token), "aud", "none") = "watson.oceanheart.ai"

\* jwt.decode(token, k, algorithms=['RS256'], audience=..., issuer=...)
\* with the three except clauses of verify_jwt_token: the signature is
\* verified first, then exp, then aud and iss
Decode(token, k) ==
    IF token.t # "jwt" THEN Invalid("Invalid token: Error decoding token headers.")
    ELSE IF ~SignatureOk(token, k) THEN Invalid("Invalid token: Signature verification failed.")
    ELSE IF ExpiredAt(token) THEN Invalid("Token has expired")
    ELSE IF ~IssAudOk(token) THEN Invalid("Invalid claims: Invalid audience")
    ELSE Valid(DecodedClaims(token))

\* a verifier without the test for an empty token
NoToken_Never(k) == FALSE

\* `not token`: the empty string (and None) are falsy
NoToken(k) == k = TokEmpty

\* what jwt.get_unverified_header and jwt.decode make of the string s: the
\* empty string, one token, or a string that is no token (a string with
\* whitespace in it is not a well-formed compact serialization)
Parse(s) ==
    IF s = << >> THEN TokEmpty
    ELSE IF Len(s) = 1 /\ s[1].t \in {"jwt", "garbage"} THEN s[1]
    ELSE TokGarbage

\* s.startswith(p), for strings and for paths
StartsWith(s, p) == Len(s) >= Len(p) /\ SubSeq(s, 1, Len(p)) = p

\* auth_header.split(): the words between runs of whitespace
Split(h) == SelectSeq(h, LAMBDA i : i # SP)

\* parts[0].lower()
Lower(i) ==
    IF i.t # "word" THEN "other"
    ELSE IF i.w \in {"Bearer", "bearer", "BEARER"} THEN "bearer"
    ELSE IF i.w \in {"Basic", "basic"} THEN "basic"
    ELSE i.w

\* an Adapter that takes any two-part header for a bearer header
AdapterAttempts_AnyScheme(h) == h # << >> /\ Len(Split(h)) = 2

\* lines 249-255 of JWTAuthentication.authenticate: the header is there,
\* has exactly two parts and the first is 'bearer' in any case
AdapterAttempts(h) ==
    /\ h # << >>
    /\ Len(Split(h)) = 2
    /\ Lower(Split(h)[1]) = "bearer"

\* line 257: token = parts[1]
AdapterToken(h) == << Split(h)[2] >>

\* line 306 of the middleware: auth_header.startswith('Bearer ')
GateAttempts(h) == StartsWith(h, << W("Bearer"), SP >>)

\* line 307: token = auth_header[7:]
GateToken(h) == SubSeq(h, 3, Len(h))

\* s has p as a substring
Contains(s, p) == \E i \in 1..Len(s) : StartsWith(SubSeq(s, i, Len(s)), p)

\* a middleware that exempts every path with an allowlist entry in it
IsPublicPath_Anywhere(p) == \E e \in PUBLIC_PATHS : Contains(p, e)

\* line 301: any(path.startswith(p) for p in self.PUBLIC_PATHS)
IsPublicPath(p) == \E e \in PUBLIC_PATHS : StartsWith(p, e)

\* the truth value of a payload: None and the empty dict are falsy
Truthy(payload) == payload # None /\ DOMAIN payload # {}

\* `error or "Invalid token"` (line 263)
ErrorOr(error, default) == IF error \in {"None", ""} THEN default ELSE error

\* ------------------------------------------------------------------- Init
NoWrite == [op |-> "none", doc |-> None, at |-> 0, had |-> NoInstant]
NoGet == [at |-> 0, w |-> NoWrite, pre |-> FALSE]

\* no request is being served: no header, no path, nothing attached
NoRequest ==
    /\ auth_header = [t \in Threads |-> << >>]
    /\ path = [t \in Threads |-> << >>]
    /\ token_str = [t \in Threads |-> NotCalled]
    /\ jwt_user = [t \in Threads |-> Absent]
    /\ jwt_error = [t \in Threads |-> "absent"]
    /\ ret = [t \in Threads |-> Pending]
    /\ handled = [t \in Threads |-> 0]
    /\ http = [t \in Threads |-> NoResponse]

\* the state after the module is imported, for a run with menu m
InitMenu(m) ==
    /\ menu = m
    /\ JWT_PUBLIC_KEY \in menu.static
    /\ now = 0
    /\ published \in menu.docs
    /\ keys = None
    /\ expires_at = NoInstant
    /\ lock = NoThread
    /\ pc = [t \in Threads |-> "idle"]
    /\ op = [t \in Threads |-> "none"]
    /\ tok = [t \in Threads |-> TokEmpty]
    /\ cached = [t \in Threads |-> None]
    /\ resp = [t \in Threads |-> None]
    /\ jwks = [t \in Threads |-> None]
    /\ key = [t \in Threads |-> None]
    /\ result = [t \in Threads |-> None]
    /\ fail = [t \in Threads |-> ""]
    /\ fbSeen = [t \in Threads |-> None]
    /\ fbStale = [t \in Threads |-> FALSE]
    /\ lastWrite = NoWrite
    /\ got = [t \in Threads |-> NoGet]
    /\ keysPre = FALSE
    /\ respPre = [t \in Threads |-> FALSE]
    /\ inFlight = [t \in Threads |-> FALSE]
    /\ rotatedAt = NoInstant
    /\ lateStart = [t \in Threads |-> FALSE]
    /\ fetches = [t \in Threads |-> 0]
    /\ NoRequest

\* a module that never takes the static key short cut
StaticConfigured_Never == FALSE

\* `if JWT_PUBLIC_KEY:` (lines 108, 152 and 196)
StaticConfigured == JWT_PUBLIC_KEY # None

Init == InitMenu(ConcurrentMenu)

InitSeq == InitMenu(SequentialMenu)

\* where a call continues after get_jwks_keys / get_public_key returned
AfterJwks(t) == IF op[t] = "jwks" THEN "done" ELSE "scan"
AfterKey(t)  == IF op[t] = "resolve" THEN "done" ELSE "decode"
\* where a call continues after verify_jwt_token returned (lines 260, 309)
AfterVerify(t) ==
    CASE op[t] \in {"authenticate", "drf"} -> "auth_result"
      [] op[t] \in {"gate", "gate_view"} -> "gate_result"
      [] OTHER -> "done"
\* where a request continues after authenticate() returned or raised
\* AuthenticationFailed, and after the middleware called self.get_response
AfterAuth(t) == IF op[t] = "drf" THEN "drf_respond" ELSE "done"
AfterGate(t) == IF op[t] = "gate_view" THEN "require" ELSE "done"
\* what the middleware returns when the handler is not the wrapped view
GateReturn(t) == IF op[t] = "gate_view" THEN ret[t] ELSE Response

\* ------------------------------------------------------------ environment
\* the clock advances
Tick ==
    /\ now < MaxTime
    /\ now' = now + 1
    /\ UNCHANGED << reqVars, menu, JWT_PUBLIC_KEY, published, cacheVars, pc, op, tok, cached, resp,
                    jwks, key, result, fail, fbSeen, histVars >>

\* the identity provider rotates its key set
Rotate ==
    /\ \E d \in menu.docs \ {published} : published' = d
    /\ UNCHANGED << reqVars, menu, JWT_PUBLIC_KEY, now, cacheVars, pc, op, tok, cached, resp,
                    jwks, key, result, fail, fbSeen, histVars >>

\* the same rotation, with its instant recorded
RotateAt ==
    /\ \E d \in menu.docs \ {published} : published' = d
    /\ rotatedAt' = now
    /\ lateStart' = [t \in Threads |-> FALSE]
    /\ UNCHANGED << reqVars, menu, JWT_PUBLIC_KEY, now, cacheVars, pc, op, tok, cached, resp,
                    jwks, key, result, fail, fbSeen, fbStale, lastWrite, got, keysPre,
                    respPre, inFlight, fetches >>

\* ------------------------------------------------------------------ calls
\* a request thread enters verify_jwt_token(token), get_public_key(token),
\* get_jwks_keys() or clear_jwks_cache()
Call(t) ==
    /\ pc[t] = "idle"
    /\ t \in menu.threads
    /\ \E o \in menu.ops :
         /\ op' = [op EXCEPT ![t] = o]
         /\ pc' = [pc EXCEPT ![t] =
                     CASE o = "verify"  -> "verify"
                       [] o = "resolve" -> "get_public_key"
                       [] o = "jwks"    -> "get_jwks_keys"
                       [] o = "clear"   -> "clear_acquire"
                       [] o \in {"authenticate", "drf"} -> "authenticate"
                       [] o \in {"gate", "gate_view"} -> "gate"]
         /\ IF o \in {"verify", "resolve"}
              THEN \E k \in menu.tokens : tok' = [tok EXCEPT ![t] = k]
              ELSE tok' = tok
         /\ IF o \in RequestOps
              THEN \E h \in menu.headers : auth_header' = [auth_header EXCEPT ![t] = h]
              ELSE auth_header' = auth_header
         /\ IF o \in {"gate", "gate_view"}
              THEN \E p \in menu.paths : path' = [path EXCEPT ![t] = p]
              ELSE path' = path
    /\ inFlight' = [inFlight EXCEPT ![t] = FALSE]
    /\ UNCHANGED << envVars, cacheVars, cached, resp, jwks, key, result, fail,
                    fbSeen, fbStale, lastWrite, got, keysPre, respPre, rotVars,
                    token_str, jwt_user, jwt_error, ret, handled, http >>

\* the call returns to its caller; its locals die
Return(t) ==
    /\ pc[t] = "done"
    /\ pc' = [pc EXCEPT ![t] = "idle"]
    /\ op' = [op EXCEPT ![t] = "none"]
    /\ tok' = [tok EXCEPT ![t] = TokEmpty]
    /\ cached' = [cached EXCEPT ![t] = None]
    /\ resp' = [resp EXCEPT ![t] = None]
    /\ jwks' = [jwks EXCEPT ![t] = None]
    /\ key' = [key EXCEPT ![t] = None]
    /\ result' = [result EXCEPT ![t] = None]
    /\ fail' = [fail EXCEPT ![t] = ""]
    /\ fbSeen' = [fbSeen EXCEPT ![t] = None]
    /\ fbStale' = [fbStale EXCEPT ![t] = FALSE]
    /\ respPre' = [respPre EXCEPT ![t] = FALSE]
    /\ inFlight' = [inFlight EXCEPT ![t] = FALSE]
    /\ auth_header' = [auth_header EXCEPT ![t] = << >>]
    /\ path' = [path EXCEPT ![t] = << >>]
    /\ token_str' = [token_str EXCEPT ![t] = NotCalled]
    /\ jwt_user' = [jwt_user EXCEPT ![t] = Absent]
    /\ jwt_error' = [jwt_error EXCEPT ![t] = "absent"]
    /\ ret' = [ret EXCEPT ![t] = Pending]
    /\ handled' = [handled EXCEPT ![t] = 0]
    /\ http' = [http EXCEPT ![t] = NoResponse]
    /\ lateStart' = [lateStart EXCEPT ![t] = FALSE]
    /\ fetches' = [fetches EXCEPT ![t] = 0]
    /\ UNCHANGED << envVars, cacheVars, lastWrite, got, keysPre, rotatedAt >>

\* -------------------------------------------------------------- JWKSCache
\* get(): `with self._lock:` entered
CacheGetAcquire(t) ==
    /\ pc[t] = "get_acquire"
    /\ lock = NoThread
    /\ lock' = t
    /\ pc' = [pc EXCEPT ![t] = "get_body"]
    /\ UNCHANGED << envVars, reqVars, keys, expires_at, op, tok, cached, resp, jwks, key,
                    result, fail, fbSeen, histVars >>

\* get(): the body under the lock, its return value goes to `cached` (line 113)
CacheGetBody(t) ==
    /\ pc[t] = "get_body"
    /\ cached' = [cached EXCEPT ![t] = CacheGetResult(keys, expires_at, now)]
    /\ lock' = NoThread
    /\ got' = [got EXCEPT ![t] = [at |-> now, w |-> lastWrite, pre |-> keysPre]]
    /\ pc' = [pc EXCEPT ![t] = "jwks_cached"]
    /\ UNCHANGED << envVars, reqVars, keys, expires_at, op, tok, resp, jwks, key,
                    result, fail, fbSeen, fbStale, lastWrite, keysPre, respPre, inFlight, rotVars >>

\* set(jwks): `with self._lock:` entered
CacheSetAcquire(t) ==
    /\ pc[t] = "set_acquire"
    /\ lock = NoThread
    /\ lock' = t
    /\ pc' = [pc EXCEPT ![t] = "set_keys"]
    /\ UNCHANGED << envVars, reqVars, keys, expires_at, op, tok, cached, resp, jwks, key,
                    result, fail, fbSeen, histVars >>

\* set(jwks): self._keys = keys
CacheSetKeys(t) ==
    /\ pc[t] = "set_keys"
    /\ keys' = resp[t]
    /\ keysPre' = respPre[t]
    /\ pc' = [pc EXCEPT ![t] = "set_expires"]
    /\ UNCHANGED << envVars, reqVars, expires_at, lock, op, tok, cached, resp, jwks, key,
                    result, fail, fbSeen, fbStale, lastWrite, got, respPre, inFlight, rotVars >>

\* a set() that returns without releasing the lock
CacheSetExpires_KeepsLock(t) ==
    /\ pc[t] = "set_expires"
    /\ expires_at' = ExpiresAt(now)
    /\ lastWrite' = [op |-> "set", doc |-> resp[t], at |-> now, had |-> NoInstant]
    /\ jwks' = [jwks EXCEPT ![t] = resp[t]]
    /\ resp' = [resp EXCEPT ![t] = None]
    /\ respPre' = [respPre EXCEPT ![t] = FALSE]
    /\ pc' = [pc EXCEPT ![t] = AfterJwks(t)]
    /\ UNCHANGED << envVars, reqVars, keys, lock, op, tok, cached, key,
                    result, fail, fbSeen, fbStale, got, keysPre, inFlight, rotVars >>

\* set(jwks): self._expires_at = datetime.now() + self._ttl, the lock is
\* released and get_jwks_keys returns the fetched document (line 128)
CacheSetExpires(t) ==
    /\ pc[t] = "set_expires"
    /\ expires_at' = ExpiresAt(now)
    /\ lock' = NoThread
    /\ lastWrite' = [op |-> "set", doc |-> resp[t], at |-> now, had |-> NoInstant]
    /\ jwks' = [jwks EXCEPT ![t] = resp[t]]
    /\ resp' = [resp EXCEPT ![t] = None]
    /\ respPre' = [respPre EXCEPT ![t] = FALSE]
    /\ pc' = [pc EXCEPT ![t] = AfterJwks(t)]
    /\ UNCHANGED << envVars, reqVars, keys, op, tok, cached, key,
                    result, fail, fbSeen, fbStale, got, keysPre, inFlight, rotVars >>

\* clear(): `with self._lock:` entered
CacheClearAcquire(t) ==
    /\ pc[t] = "clear_acquire"
    /\ lock = NoThread
    /\ lock' = t
    /\ pc' = [pc EXCEPT ![t] = "clear_keys"]
    /\ UNCHANGED << envVars, reqVars, keys, expires_at, op, tok, cached, resp, jwks, key,
                    result, fail, fbSeen, histVars >>

\* a clear() that resets the expiry only and keeps the document
CacheClearKeys_Keep(t) ==
    /\ pc[t] = "clear_keys"
    /\ pc' = [pc EXCEPT ![t] = "clear_expires"]
    /\ UNCHANGED << envVars, reqVars, keys, expires_at, lock, op, tok, cached, resp, jwks, key,
                    result, fail, fbSeen, histVars >>

\* clear(): self._keys = None
CacheClearKeys(t) ==
    /\ pc[t] = "clear_keys"
    /\ keys' = None
    /\ pc' = [pc EXCEPT ![t] = "clear_expires"]
    /\ UNCHANGED << envVars, reqVars, expires_at, lock, op, tok, cached, resp, jwks, key,
                    result, fail, fbSeen, histVars >>

\* clear(): self._expires_at = None, the lock is released and
\* clear_jwks_cache returns.  History: every document a thread has fetched
\* and not yet stored, and every call under way now, predates this clear;
\* no document is cached.
CacheClearExpires(t) ==
    /\ pc[t] = "clear_expires"
    /\ expires_at' = NoInstant
    /\ lock' = NoThread
    /\ lastWrite' = [op |-> "clear", doc |-> None, at |-> now, had |-> expires_at]
    /\ keysPre' = FALSE
    /\ respPre' = [u \in Threads |-> resp[u] # None]
    /\ inFlight' = [u \in Threads |-> pc[u] # "idle"]
    /\ pc' = [pc EXCEPT ![t] = "done"]
    /\ UNCHANGED << envVars, reqVars, keys, op, tok, cached, resp, jwks, key,
                    result, fail, fbSeen, fbStale, got, rotVars >>

\* ---------------------------------------------------------- get_jwks_keys
\* lines 107-113: the static key short cut, else _jwks_cache.get()
GetJwksStart(t) ==
    /\ pc[t] = "get_jwks_keys"
    /\ IF StaticConfigured
         THEN /\ jwks' = [jwks EXCEPT ![t] = StaticDict]
              /\ pc' = [pc EXCEPT ![t] = AfterJwks(t)]
         ELSE /\ jwks' = jwks
              /\ pc' = [pc EXCEPT ![t] = "get_acquire"]
    /\ lateStart' = [lateStart EXCEPT ![t] =
                       /\ ~StaticConfigured
                       /\ rotatedAt # NoInstant
                       /\ now > rotatedAt + JWKS_CACHE_TTL_SECONDS]
    /\ UNCHANGED << envVars, reqVars, cacheVars, op, tok, cached, resp, key,
                    result, fail, fbSeen, fbStale, lastWrite, got, keysPre, respPre,
                    inFlight, rotatedAt, fetches >>

\* a resolver that fetches whatever get() returned
JwksCached_AlwaysFetch(t) ==
    /\ pc[t] = "jwks_cached"
    /\ jwks' = jwks
    /\ pc' = [pc EXCEPT ![t] = "fetch"]
    /\ cached' = [cached EXCEPT ![t] = None]
    /\ got' = [got EXCEPT ![t] = NoGet]
    /\ UNCHANGED << envVars, reqVars, cacheVars, op, tok, resp, key,
                    result, fail, fbSeen, fbStale, lastWrite, keysPre, respPre, inFlight, rotVars >>

\* lines 114-116: a fresh cached document is returned
JwksCached(t) ==
    /\ pc[t] = "jwks_cached"
    /\ IF cached[t] # None
         THEN /\ jwks' = [jwks EXCEPT ![t] = cached[t]]
              /\ pc' = [pc EXCEPT ![t] = AfterJwks(t)]
         ELSE /\ jwks' = jwks
              /\ pc' = [pc EXCEPT ![t] = "fetch"]
    /\ cached' = [cached EXCEPT ![t] = None]
    /\ got' = [got EXCEPT ![t] = NoGet]
    /\ UNCHANGED << envVars, reqVars, cacheVars, op, tok, resp, key,
                    result, fail, fbSeen, fbStale, lastWrite, keysPre, respPre, inFlight, rotVars >>

\* lines 119-124 and the dispatch to the except clauses: requests.get with
\* its timeout, raise_for_status and response.json().  A network error, a
\* timeout and an HTTP error status are requests.RequestException.  What
\* response.json() raises for a body that is not JSON depends on the
\* installed requests: a json.JSONDecodeError that is also a
\* RequestException (caught by the first clause, line 129) or a plain
\* json.JSONDecodeError (caught by the second clause, line 136).
Fetch(t) ==
    /\ pc[t] = "fetch"
    /\ \E o \in FetchOutcomes :
         \/ /\ o = "ok"
            /\ resp' = [resp EXCEPT ![t] = JDict(published)]
            /\ respPre' = [respPre EXCEPT ![t] = FALSE]
            /\ pc' = [pc EXCEPT ![t] = "set_acquire"]
            /\ UNCHANGED << fail, jwks, result >>
         \/ /\ o \in {"network", "timeout", "http"}
            /\ fail' = [fail EXCEPT ![t] = "request"]
            /\ pc' = [pc EXCEPT ![t] = "fb_check"]
            /\ UNCHANGED << resp, respPre, jwks, result >>
         \/ /\ o = "badjson"
            /\ fail' = [fail EXCEPT ![t] = o]
            /\ \/ /\ pc' = [pc EXCEPT ![t] = "fb_check"]
                  /\ jwks' = jwks
               \/ /\ jwks' = [jwks EXCEPT ![t] = EmptyDict]
                  /\ pc' = [pc EXCEPT ![t] = AfterJwks(t)]
            /\ UNCHANGED << resp, respPre, result >>
         \/ \* line 124: jwks.get on a list or on None raises AttributeError,
            \* which neither except clause catches
            /\ o = "notdict"
            /\ result' = [result EXCEPT ![t] = Raised("AttributeError")]
            /\ pc' = [pc EXCEPT ![t] = "done"]
            /\ UNCHANGED << resp, respPre, fail, jwks >>
    /\ fetches' = [fetches EXCEPT ![t] = @ + 1]
    /\ UNCHANGED << envVars, reqVars, cacheVars, op, tok, cached, key, fbSeen,
                    fbStale, lastWrite, got, keysPre, inFlight, rotatedAt, lateStart >>

\* a fallback that returns _jwks_cache._keys without testing it
FallbackCheck_Unchecked(t) ==
    /\ pc[t] = "fb_check"
    /\ fbSeen' = [fbSeen EXCEPT ![t] = keys]
    /\ fbStale' = [fbStale EXCEPT ![t] = expires_at # NoInstant /\ now > expires_at]
    /\ jwks' = [jwks EXCEPT ![t] = keys]
    /\ pc' = [pc EXCEPT ![t] = AfterJwks(t)]
    /\ UNCHANGED << envVars, reqVars, cacheVars, op, tok, cached, resp, key,
                    result, fail, lastWrite, got, keysPre, respPre, inFlight, rotVars >>

\* line 132: `if _jwks_cache._keys is not None`, read without the lock;
\* line 135: return {} when it is None
FallbackCheck(t) ==
    /\ pc[t] = "fb_check"
    /\ fbSeen' = [fbSeen EXCEPT ![t] = keys]
    /\ fbStale' = [fbStale EXCEPT ![t] = expires_at # NoInstant /\ now > expires_at]
    /\ IF keys # None
         THEN /\ pc' = [pc EXCEPT ![t] = "fb_use"]
              /\ jwks' = jwks
         ELSE /\ jwks' = [jwks EXCEPT ![t] = EmptyDict]
              /\ pc' = [pc EXCEPT ![t] = AfterJwks(t)]
    /\ UNCHANGED << envVars, reqVars, cacheVars, op, tok, cached, resp, key,
                    result, fail, lastWrite, got, keysPre, respPre, inFlight, rotVars >>

\* a fallback that renews the expiry of the document it serves
FallbackUse_Renews(t) ==
    /\ pc[t] = "fb_use"
    /\ jwks' = [jwks EXCEPT ![t] = keys]
    /\ expires_at' = ExpiresAt(now)
    /\ pc' = [pc EXCEPT ![t] = AfterJwks(t)]
    /\ UNCHANGED << envVars, reqVars, keys, lock, op, tok, cached, resp, key,
                    result, fail, fbSeen, histVars >>

\* line 134: `return _jwks_cache._keys`, a second read without the lock
FallbackUse(t) ==
    /\ pc[t] = "fb_use"
    /\ jwks' = [jwks EXCEPT ![t] = keys]
    /\ pc' = [pc EXCEPT ![t] = AfterJwks(t)]
    /\ UNCHANGED << envVars, reqVars, cacheVars, op, tok, cached, resp, key,
                    result, fail, fbSeen, histVars >>

\* --------------------------------------------------------- get_public_key
\* lines 151-165: the static key short cut, the unverified header and its kid
GetPublicKeyStart(t) ==
    /\ pc[t] = "get_public_key"
    /\ IF StaticConfigured
         THEN /\ key' = [key EXCEPT ![t] = JWT_PUBLIC_KEY]
              /\ pc' = [pc EXCEPT ![t] = AfterKey(t)]
         ELSE IF tok[t].t # "jwt"
         THEN \* jwt.get_unverified_header raises JWTError (lines 179-181)
              /\ key' = [key EXCEPT ![t] = None]
              /\ pc' = [pc EXCEPT ![t] = AfterKey(t)]
         ELSE IF tok[t].kid = ""
         THEN \* `if not kid` (lines 160-162)
              /\ key' = [key EXCEPT ![t] = None]
              /\ pc' = [pc EXCEPT ![t] = AfterKey(t)]
         ELSE /\ key' = key
              /\ pc' = [pc EXCEPT ![t] = "get_jwks_keys"]
    /\ UNCHANGED << envVars, reqVars, cacheVars, op, tok, cached, resp, jwks,
                    result, fail, fbSeen, histVars >>

\* lines 166-177: jwks.get('keys', []) and the scan.  jwks.get on None
\* raises AttributeError, which no except clause of get_public_key or
\* verify_jwt_token catches.
GetPublicKeyScan(t) ==
    /\ pc[t] = "scan"
    /\ IF jwks[t] = None
         THEN /\ result' = [result EXCEPT ![t] = Raised("AttributeError")]
              /\ key' = key
              /\ pc' = [pc EXCEPT ![t] = "done"]
         ELSE /\ key' = [key EXCEPT ![t] = FindKey(KeysOf(jwks[t]), tok[t].kid)]
              /\ result' = result
              /\ pc' = [pc EXCEPT ![t] = AfterKey(t)]
    /\ UNCHANGED << envVars, reqVars, cacheVars, op, tok, cached, resp, jwks,
                    fail, fbSeen, histVars >>

\* ------------------------------------------------------- verify_jwt_token
\* lines 191-211: no token, the static key branch, else get_public_key
VerifyStart(t) ==
    /\ pc[t] = "verify"
    /\ IF NoToken(tok[t])
         THEN /\ result' = [result EXCEPT ![t] = Invalid("No token provided")]
              /\ pc' = [pc EXCEPT ![t] = AfterVerify(t)]
         ELSE IF StaticConfigured
         THEN /\ result' = [result EXCEPT ![t] = Decode(tok[t], JWT_PUBLIC_KEY)]
              /\ pc' = [pc EXCEPT ![t] = AfterVerify(t)]
         ELSE /\ result' = result
              /\ pc' = [pc EXCEPT ![t] = "get_public_key"]
    /\ UNCHANGED << envVars, reqVars, cacheVars, op, tok, cached, resp, jwks, key,
                    fail, fbSeen, histVars >>

\* lines 212-235: no key, else jwt.decode with the resolved key
VerifyDecode(t) ==
    /\ pc[t] = "decode"
    /\ result' = [result EXCEPT ![t] =
                    IF key[t] = None
                      THEN Invalid("Could not find public key for token")
                      ELSE Decode(tok[t], key[t])]
    /\ pc' = [pc EXCEPT ![t] = AfterVerify(t)]
    /\ UNCHANGED << envVars, reqVars, cacheVars, op, tok, cached, resp, jwks, key,
                    fail, fbSeen, histVars >>

\* ------------------------------------------- JWTAuthentication (Adapter)
\* the variables no step of the Adapter or of the Gate touches
restVars == << envVars, cacheVars, op, cached, resp, jwks, key, result, fail,
               fbSeen, histVars, auth_header, path, http >>

\* lines 247-260: the header is read and split; None when it is not a
\* bearer header, else verify_jwt_token(parts[1])
Authenticate(t) ==
    /\ pc[t] = "authenticate"
    /\ IF AdapterAttempts(auth_header[t])
         THEN /\ token_str' = [token_str EXCEPT ![t] = Called(AdapterToken(auth_header[t]))]
              /\ tok' = [tok EXCEPT ![t] = Parse(AdapterToken(auth_header[t]))]
              /\ pc' = [pc EXCEPT ![t] = "verify"]
              /\ ret' = ret
         ELSE /\ ret' = [ret EXCEPT ![t] = None]
              /\ pc' = [pc EXCEPT ![t] = AfterAuth(t)]
              /\ UNCHANGED << token_str, tok >>
    /\ UNCHANGED << restVars, jwt_user, jwt_error, handled >>

\* an Adapter that lets a bearer through whatever the verifier said
AuthResult_FailOpen(t) ==
    /\ pc[t] = "auth_result"
    /\ ret' = [ret EXCEPT ![t] =
                 Pair(JWTUser(IF result[t].is_valid THEN result[t].payload
                                                    ELSE [sub |-> "unverified"]),
                      token_str[t].s)]
    /\ pc' = [pc EXCEPT ![t] = AfterAuth(t)]
    /\ UNCHANGED << restVars, tok, token_str, jwt_user, jwt_error, handled >>

\* lines 262-268: AuthenticationFailed on an invalid token, else
\* (JWTUser(payload), token)
AuthResult(t) ==
    /\ pc[t] = "auth_result"
    /\ ret' = [ret EXCEPT ![t] =
                 IF ~result[t].is_valid
                   THEN AuthenticationFailed(ErrorOr(result[t].error, "Invalid token"))
                   ELSE Pair(JWTUser(result[t].payload), token_str[t].s)]
    /\ pc' = [pc EXCEPT ![t] = AfterAuth(t)]
    /\ UNCHANGED << restVars, tok, token_str, jwt_user, jwt_error, handled >>

\* ------------------------------------- JWTAuthenticationMiddleware (Gate)
\* lines 299-309 and 318-321: a public path goes straight to the handler;
\* a header that starts with 'Bearer ' has its remainder verified; any
\* other header leaves jwt_user = None and goes to the handler
Gate(t) ==
    /\ pc[t] = "gate"
    /\ IF IsPublicPath(path[t])
         THEN /\ handled' = [handled EXCEPT ![t] = @ + 1]
              /\ ret' = [ret EXCEPT ![t] = GateReturn(t)]
              /\ pc' = [pc EXCEPT ![t] = AfterGate(t)]
              /\ UNCHANGED << token_str, tok, jwt_user >>
         ELSE IF GateAttempts(auth_header[t])
         THEN /\ token_str' = [token_str EXCEPT ![t] = Called(GateToken(auth_header[t]))]
              /\ tok' = [tok EXCEPT ![t] = Parse(GateToken(auth_header[t]))]
              /\ pc' = [pc EXCEPT ![t] = "verify"]
              /\ UNCHANGED << handled, ret, jwt_user >>
         ELSE /\ jwt_user' = [jwt_user EXCEPT ![t] = None]
              /\ handled' = [handled EXCEPT ![t] = @ + 1]
              /\ ret' = [ret EXCEPT ![t] = GateReturn(t)]
              /\ pc' = [pc EXCEPT ![t] = AfterGate(t)]
              /\ UNCHANGED << token_str, tok >>
    /\ UNCHANGED << restVars, jwt_error >>

\* lines 311-321: the outcome is attached to the request and the handler
\* is called
GateResult(t) ==
    /\ pc[t] = "gate_result"
    /\ IF result[t].is_valid /\ Truthy(result[t].payload)
         THEN /\ jwt_user' = [jwt_user EXCEPT ![t] = JWTUser(result[t].payload)]
              /\ jwt_error' = jwt_error
         ELSE /\ jwt_user' = [jwt_user EXCEPT ![t] = None]
              /\ jwt_error' = [jwt_error EXCEPT ![t] = result[t].error]
    /\ handled' = [handled EXCEPT ![t] = @ + 1]
    /\ ret' = [ret EXCEPT ![t] = GateReturn(t)]
    /\ pc' = [pc EXCEPT ![t] = AfterGate(t)]
    /\ UNCHANGED << restVars, tok, token_str >>

\* --------------------------------------------- views behind the two guards
\* a protected view that answers 403 without challenge when authenticate
\* made no attempt
DrfRespond_Forbidden(t) ==
    /\ pc[t] = "drf_respond"
    /\ http' = [http EXCEPT ![t] =
                  IF ret[t] = None THEN HttpResponse(403, FALSE, "", "Forbidden")
                  ELSE IF ret[t].t = "raise"
                    THEN HttpResponse(401, FALSE, AuthenticateHeader, ret[t].detail)
                  ELSE HttpResponse(200, TRUE, "", "")]
    /\ pc' = [pc EXCEPT ![t] = "done"]
    /\ UNCHANGED << envVars, cacheVars, op, tok, cached, resp, jwks, key, result, fail,
                    fbSeen, histVars, auth_header, path, token_str, jwt_user,
                    jwt_error, ret, handled >>

\* a view with authentication_classes = [JWTAuthentication] and
\* permission_classes = [IsAuthenticated] (tests.py, lines 281-283):
\* None from authenticate leaves an anonymous user, which IsAuthenticated
\* refuses; the refusal and AuthenticationFailed are answered 401 with
\* authenticate_header() as challenge; with the pair, request.user is the
\* JWTUser, whose is_authenticated is True, and the body of the view runs
DrfRespond(t) ==
    /\ pc[t] = "drf_respond"
    /\ http' = [http EXCEPT ![t] =
                  IF ret[t] = None
                    THEN HttpResponse(401, FALSE, AuthenticateHeader,
                                      "Authentication credentials were not provided.")
                  ELSE IF ret[t].t = "raise"
                    THEN HttpResponse(401, FALSE, AuthenticateHeader, ret[t].detail)
                  ELSE HttpResponse(200, ret[t].user.is_authenticated, "", "")]
    /\ pc' = [pc EXCEPT ![t] = "done"]
    /\ UNCHANGED << envVars, cacheVars, op, tok, cached, resp, jwks, key, result, fail,
                    fbSeen, histVars, auth_header, path, token_str, jwt_user,
                    jwt_error, ret, handled >>

\* a wrapper that always answers with the default detail
RequireJwtAuth_DefaultDetail(t) ==
    /\ pc[t] = "require"
    /\ http' = [http EXCEPT ![t] =
                  IF jwt_user[t] = Absent \/ jwt_user[t] = None
                    THEN HttpResponse(401, FALSE, "", "Authentication required")
                    ELSE HttpResponse(200, TRUE, "", "")]
    /\ ret' = [ret EXCEPT ![t] = Response]
    /\ pc' = [pc EXCEPT ![t] = "done"]
    /\ UNCHANGED << envVars, cacheVars, op, tok, cached, resp, jwks, key, result, fail,
                    fbSeen, histVars, auth_header, path, token_str, jwt_user,
                    jwt_error, handled >>

\* require_jwt_auth, lines 329-337: 401 with the detail
\* getattr(request, 'jwt_error', 'Authentication required') when jwt_user
\* is missing or None, else the view
RequireJwtAuth(t) ==
    /\ pc[t] = "require"
    /\ http' = [http EXCEPT ![t] =
                  IF jwt_user[t] = Absent \/ jwt_user[t] = None
                    THEN HttpResponse(401, FALSE, "",
                                      IF jwt_error[t] = "absent"
                                        THEN "Authentication required"
                                        ELSE jwt_error[t])
                    ELSE HttpResponse(200, TRUE, "", "")]
    /\ ret' = [ret EXCEPT ![t] = Response]
    /\ pc' = [pc EXCEPT ![t] = "done"]
    /\ UNCHANGED << envVars, cacheVars, op, tok, cached, resp, jwks, key, result, fail,
                    fbSeen, histVars, auth_header, path, token_str, jwt_user,
                    jwt_error, handled >>

\* ------------------------------------------------------------------- Next
Next ==
    \/ Tick
    \/ Rotate
    \/ \E t \in Threads :
         \/ Call(t)
         \/ Return(t)
         \/ CacheGetAcquire(t)
         \/ CacheGetBody(t)
         \/ CacheSetAcquire(t)
         \/ CacheSetKeys(t)
         \/ CacheSetExpires(t)
         \/ CacheClearAcquire(t)
         \/ CacheClearKeys(t)
         \/ CacheClearExpires(t)
         \/ GetJwksStart(t)
         \/ JwksCached(t)
         \/ Fetch(t)
         \/ FallbackCheck(t)
         \/ FallbackUse(t)
         \/ GetPublicKeyStart(t)
         \/ GetPublicKeyScan(t)
         \/ VerifyStart(t)
         \/ VerifyDecode(t)

\* two request threads race on the cache
Spec == Init /\ [][Next]_vars

\* two request threads resolve keys in JWKS mode while the identity
\* provider rotates its key set; the instant of each rotation is recorded
RotationMenu ==
    [threads |-> Threads, ops |-> {"verify"}, tokens |-> {TokK2},
     docs |-> {DocA, DocB}, static |-> {None}, headers |-> {}, paths |-> {}]

InitRot == InitMenu(RotationMenu)

NextRot ==
    \/ Tick
    \/ RotateAt
    \/ \E t \in Threads :
         \/ Call(t)
         \/ Return(t)
         \/ CacheGetAcquire(t)
         \/ CacheGetBody(t)
         \/ CacheSetAcquire(t)
         \/ CacheSetKeys(t)
         \/ CacheSetExpires(t)
         \/ GetJwksStart(t)
         \/ JwksCached(t)
         \/ Fetch(t)
         \/ FallbackCheck(t)
         \/ FallbackUse(t)
         \/ GetPublicKeyStart(t)
         \/ GetPublicKeyScan(t)
         \/ VerifyStart(t)
         \/ VerifyDecode(t)

SpecRot == InitRot /\ [][NextRot]_vars

\* two request threads verify, at one instant and in JWKS mode, a token
\* without kid, a token whose kid is in no entry of the document and a
\* token whose kid matches an entry with malformed key material
ReasonsMenu ==
    [threads |-> Threads, ops |-> {"verify"}, tokens |-> {TokNoKid, TokK1, TokK3},
     docs |-> {DocC}, static |-> {None}, headers |-> {}, paths |-> {}]

InitReasons == InitMenu(ReasonsMenu)

NextReasons ==
    \E t \in Threads :
        \/ Call(t)
        \/ Return(t)
        \/ CacheGetAcquire(t)
        \/ CacheGetBody(t)
        \/ CacheSetAcquire(t)
        \/ CacheSetKeys(t)
        \/ CacheSetExpires(t)
        \/ GetJwksStart(t)
        \/ JwksCached(t)
        \/ Fetch(t)
        \/ FallbackCheck(t)
        \/ FallbackUse(t)
        \/ GetPublicKeyStart(t)
        \/ GetPublicKeyScan(t)
        \/ VerifyStart(t)
        \/ VerifyDecode(t)

SpecReasons == InitReasons /\ [][NextReasons]_vars

\* two request threads verify and clear in JWKS mode at one instant, under
\* the scheduling the interpreter gives them: a thread that can take a step
\* of its call takes it (requests.get has timeout=10, line 120), and a
\* thread waiting in `with self._lock:` gets the lock once it is released
\* often enough
LiveMenu ==
    [threads |-> Threads, ops |-> {"verify", "clear"}, tokens |-> {TokK2},
     docs |-> {DocA}, static |-> {None}, headers |-> {}, paths |-> {}]

InitLive == InitMenu(LiveMenu)

NextLive ==
    \E t \in Threads :
        \/ Call(t)
        \/ Return(t)
        \/ CacheGetAcquire(t)
        \/ CacheGetBody(t)
        \/ CacheSetAcquire(t)
        \/ CacheSetKeys(t)
        \/ CacheSetExpires(t)
        \/ CacheClearAcquire(t)
        \/ CacheClearKeys(t)
        \/ CacheClearExpires(t)
        \/ GetJwksStart(t)
        \/ JwksCached(t)
        \/ Fetch(t)
        \/ FallbackCheck(t)
        \/ FallbackUse(t)
        \/ GetPublicKeyStart(t)
        \/ GetPublicKeyScan(t)
        \/ VerifyStart(t)
        \/ VerifyDecode(t)

\* the steps of a call under way that wait for nothing
Running(t) ==
    \/ CacheGetBody(t)
    \/ CacheSetKeys(t)
    \/ CacheSetExpires(t)
    \/ CacheClearKeys(t)
    \/ CacheClearExpires(t)
    \/ GetJwksStart(t)
    \/ JwksCached(t)
    \/ Fetch(t)
    \/ FallbackCheck(t)
    \/ FallbackUse(t)
    \/ GetPublicKeyStart(t)
    \/ GetPublicKeyScan(t)
    \/ VerifyStart(t)
    \/ VerifyDecode(t)

\* entering `with self._lock:` of get(), set() or clear()
Acquire(t) ==
    \/ CacheGetAcquire(t)
    \/ CacheSetAcquire(t)
    \/ CacheClearAcquire(t)

Fairness ==
    \A t \in Threads : WF_vars(Running(t)) /\ SF_vars(Acquire(t))

SpecLive == InitLive /\ [][NextLive]_vars /\ Fairness

\* the steps of the module and of the two entry points that serve requests
NextSeq ==
    \/ Next
    \/ \E t \in Threads :
         \/ Authenticate(t)
         \/ AuthResult(t)
         \/ Gate(t)
         \/ GateResult(t)
         \/ DrfRespond(t)
         \/ RequireJwtAuth(t)

\* one request thread, every call, every token, header, path and document
SpecSeq == InitSeq /\ [][NextSeq]_vars

\* The scan of get_public_key on every document of ScanDocs: thread t1 has
\* fetched and cached the served document at instant 0 and is at line 166.
InitScan ==
    /\ menu = ScanMenu
    /\ JWT_PUBLIC_KEY = None
    /\ now = 0
    /\ published \in menu.docs
    /\ keys = JDict(published)
    /\ expires_at = ExpiresAt(0)
    /\ lock = NoThread
    /\ pc = [t \in Threads |-> IF t = "t1" THEN "scan" ELSE "idle"]
    /\ \E o \in menu.ops : op = [t \in Threads |-> IF t = "t1" THEN o ELSE "none"]
    /\ \E k \in menu.tokens : tok = [t \in Threads |-> IF t = "t1" THEN k ELSE TokEmpty]
    /\ cached = [t \in Threads |-> None]
    /\ resp = [t \in Threads |-> None]
    /\ jwks = [t \in Threads |-> IF t = "t1" THEN JDict(published) ELSE None]
    /\ key = [t \in Threads |-> None]
    /\ result = [t \in Threads |-> None]
    /\ fail = [t \in Threads |-> ""]
    /\ fbSeen = [t \in Threads |-> None]
    /\ fbStale = [t \in Threads |-> FALSE]
    /\ lastWrite = [op |-> "set", doc |-> JDict(published), at |-> 0, had |-> NoInstant]
    /\ got = [t \in Threads |-> NoGet]
    /\ keysPre = FALSE
    /\ respPre = [t \in Threads |-> FALSE]
    /\ inFlight = [t \in Threads |-> FALSE]
    /\ rotatedAt = NoInstant
    /\ lateStart = [t \in Threads |-> FALSE]
    /\ fetches = [t \in Threads |-> 0]
    /\ NoRequest

NextScan ==
    \E t \in menu.threads :
        \/ GetPublicKeyScan(t)
        \/ VerifyDecode(t)
        \/ Return(t)

SpecScan == InitScan /\ [][NextScan]_vars

TypeOK ==
    /\ now \in 0..MaxTime
    /\ lock \in Threads \cup {NoThread}
    /\ expires_at \in {NoInstant} \cup 0..(MaxTime + JWKS_CACHE_TTL_SECONDS)

\* ================================================================ claims
\* the pair (keys, expires_at) is as one completed set() or clear() left it
FullyWritten ==
    \/ /\ lastWrite.op \in {"none", "clear"}
       /\ keys = None
       /\ expires_at = NoInstant
    \/ /\ lastWrite.op = "set"
       /\ keys = lastWrite.doc
       /\ expires_at = lastWrite.at + JWKS_CACHE_TTL_SECONDS

\* C1: every read of the cache's state, the stale-fallback read of
\* get_jwks_keys included, is made under the cache's lock and observes a
\* pair written in full by one set() or clear(): a thread inside get() holds
\* the lock and sees such a pair, and the field a thread checked on line 132
\* still has the checked value when the thread uses it on line 134.
C1_ReadsUnderMutualExclusion ==
    \A t \in Threads :
        /\ pc[t] = "get_body" => (lock = t /\ FullyWritten)
        /\ pc[t] = "fb_use" => keys = fbSeen[t]

\* C2: when the last write is set(k) at instant s, a get() at an instant
\* after s + TTL returns None, and k is still in the cache afterwards for
\* as long as nobody writes.
C2_ExpiredGetReturnsNone ==
    \A t \in Threads :
        (/\ pc[t] = "jwks_cached"
         /\ got[t].w.op = "set"
         /\ got[t].at > got[t].w.at + JWKS_CACHE_TTL_SECONDS)
        => /\ cached[t] = None
           /\ (lastWrite = got[t].w /\ lock = NoThread) => keys = got[t].w.doc

\* C2 witness: a get() after the TTL returned None and the document is retained
C2_Witness ==
    \E t \in Threads :
        /\ pc[t] = "jwks_cached"
        /\ got[t].w.op = "set"
        /\ got[t].at > got[t].w.at + JWKS_CACHE_TTL_SECONDS
        /\ cached[t] = None
        /\ lastWrite = got[t].w
        /\ keys = got[t].w.doc
        /\ keys # None

\* C3: when the last completed operation is set(k) at instant s, expires_at
\* is s + TTL, the cache holds k, and a get() at an instant in s..s+TTL
\* returns exactly k.
C3_LastWriteWins ==
    /\ (lock = NoThread /\ lastWrite.op = "set") =>
           /\ expires_at = lastWrite.at + JWKS_CACHE_TTL_SECONDS
           /\ keys = lastWrite.doc
    /\ \A t \in Threads :
           (/\ pc[t] = "jwks_cached"
            /\ got[t].w.op = "set"
            /\ got[t].w.at <= got[t].at
            /\ got[t].at <= got[t].w.at + JWKS_CACHE_TTL_SECONDS)
           => cached[t] = got[t].w.doc

\* C3 witness: a get() at the last fresh instant s + TTL returned the
\* document of the last set(), which is not the document being served now
C3_Witness ==
    \E t \in Threads :
        /\ pc[t] = "jwks_cached"
        /\ got[t].w.op = "set"
        /\ got[t].at = got[t].w.at + JWKS_CACHE_TTL_SECONDS
        /\ cached[t] = got[t].w.doc
        /\ cached[t] # None
        /\ cached[t] # JDict(published)

\* C4: a get() whose last preceding write is a clear() returns None,
\* whatever expiry the cleared entry had.
C4_ClearThenGetReturnsNone ==
    \A t \in Threads :
        (pc[t] = "jwks_cached" /\ got[t].w.op = "clear") => cached[t] = None

\* C4 witness: a get() returned None after a clear() that erased an entry
\* which would still have been fresh at the instant of the get()
C4_Witness ==
    \E t \in Threads :
        /\ pc[t] = "jwks_cached"
        /\ got[t].w.op = "clear"
        /\ got[t].w.had # NoInstant
        /\ got[t].at <= got[t].w.had
        /\ cached[t] = None

\* the calls that resolve a key
Resolving(t) == op[t] \in {"verify", "resolve", "jwks"}

\* C5: a key resolution that starts after clear_jwks_cache() returned (no
\* static key) does not take from the cache a document that was fetched
\* before that clear; it fetches afresh.
C5_ClearForcesRefresh ==
    \A t \in Threads :
        (/\ pc[t] = "jwks_cached"
         /\ Resolving(t)
         /\ JWT_PUBLIC_KEY = None
         /\ ~inFlight[t]
         /\ cached[t] # None)
        => ~got[t].pre

\* positions of a call inside get_jwks_keys after line 110, inside the
\* cache, or at the kid scan of get_public_key
CachePcs == {"get_acquire", "get_body", "jwks_cached", "fetch", "set_acquire",
             "set_keys", "set_expires", "fb_check", "fb_use", "scan"}

\* C6: with a static override key configured, no call that resolves a key
\* reaches the cache, the fetch or the kid scan, the cache stays as
\* constructed, get_public_key returns the static key for every token and
\* verify_jwt_token decodes every non-empty token with it.
C6_StaticKeyBypassesCache ==
    JWT_PUBLIC_KEY # None =>
        /\ keys = None
        /\ expires_at = NoInstant
        /\ \A t \in Threads :
               Resolving(t) =>
                   /\ pc[t] \notin CachePcs
                   /\ fail[t] = ""
                   /\ (pc[t] = "done" /\ op[t] = "resolve") => key[t] = JWT_PUBLIC_KEY
                   /\ (pc[t] = "done" /\ op[t] = "jwks") => jwks[t] = StaticDict
                   /\ (pc[t] = "done" /\ op[t] = "verify" /\ tok[t] # TokEmpty)
                          => result[t] = Decode(tok[t], JWT_PUBLIC_KEY)

\* C6 witness: a token without kid was verified with the static key
C6_Witness ==
    \E t \in Threads :
        /\ JWT_PUBLIC_KEY = StaticKey
        /\ pc[t] = "done"
        /\ op[t] = "verify"
        /\ tok[t] = TokStatic
        /\ result[t] = Valid(Claims(TokStatic))
        /\ keys = None

\* C7: when the fetch fails with a network error, a timeout or an HTTP error
\* status and the cache holds a document whose TTL has elapsed and that
\* contains the token's kid, the call does not fail: get_public_key produces a key and no exception
\* reaches the caller.
C7_StaleFallbackResolves ==
    \A t \in Threads :
        (/\ pc[t] = "done"
         /\ op[t] \in {"verify", "resolve"}
         /\ fail[t] = "request"
         /\ fbSeen[t] # None
         /\ fbStale[t]
         /\ FindKey(KeysOf(fbSeen[t]), tok[t].kid) # None)
        => /\ result[t] # Raised("AttributeError")
           /\ key[t] # None

\* C8: when the body of the response is not JSON and the cache holds a
\* document, get_jwks_keys returns that document.
C8_MalformedJsonFallsBack ==
    \A t \in Threads :
        (/\ pc[t] = (IF op[t] = "jwks" THEN "done" ELSE "scan")
         /\ Resolving(t)
         /\ fail[t] = "badjson"
         /\ lock = NoThread
         /\ keys # None)
        => jwks[t] = keys

\* C9: when the fetch fails and the cache holds no document, get_jwks_keys
\* returns a document without keys, get_public_key returns no key and
\* verify_jwt_token returns the Invalid outcome for a missing key.
C9_NoFallbackIsInvalid ==
    \A t \in Threads :
        (Resolving(t) /\ fail[t] # "" /\ fbSeen[t] = None) =>
            /\ (pc[t] \in {"scan", "decode", "done"}) => jwks[t] = EmptyDict
            /\ (pc[t] \in {"decode", "done"} /\ op[t] # "jwks") => key[t] = None
            /\ (pc[t] = "done" /\ op[t] = "verify")
                   => result[t] = Invalid("Could not find public key for token")

\* C9 witness: a verification ended Invalid after a failed fetch that found
\* the cache cleared
C9_Witness ==
    \E t \in Threads :
        /\ pc[t] = "done"
        /\ op[t] = "verify"
        /\ fail[t] = "request"
        /\ fbSeen[t] = None
        /\ lastWrite.op = "clear"
        /\ result[t] = Invalid("Could not find public key for token")

\* positions of the entries of ks whose kid is kid
Matches(ks, kid) == {i \in 1..Len(ks) : ks[i].kid = kid}

\* C10: the key get_public_key returns for a document is the key built from
\* the entry at the least position whose kid equals the token's kid, and no
\* key when no entry has that kid.
C10_FirstMatchWins ==
    \A t \in Threads :
        (/\ pc[t] \in {"decode", "done"}
         /\ op[t] \in {"verify", "resolve"}
         /\ JWT_PUBLIC_KEY = None
         /\ jwks[t] # None)
        => LET ks == KeysOf(jwks[t])
               M  == Matches(ks, tok[t].kid)
           IN  IF M = {}
                 THEN key[t] = None
                 ELSE \E i \in M :
                        /\ \A j \in M : i <= j
                        /\ key[t] = Construct(ks[i])

\* C10 witness: kid k2 occurs twice in the document and the key of its
\* first entry was returned
C10_Witness ==
    \E t \in Threads :
        /\ pc[t] = "done"
        /\ op[t] = "resolve"
        /\ tok[t] = TokK2
        /\ Cardinality(Matches(KeysOf(jwks[t]), "k2")) > 1
        /\ key[t] = Key("m3")

\* C11: verify_jwt_token on an empty token returns (False, None, 'No token
\* provided') in its first step, in static-key mode and in JWKS mode alike:
\* the step parses no header, reads and writes no cache field, fetches
\* nothing and resolves no key.
C11_NoTokenNoResolution ==
    [][\A t \in Threads :
         (pc[t] = "verify" /\ tok[t] = TokEmpty /\ pc'[t] # "verify")
         => /\ result'[t] = Invalid("No token provided")
            /\ pc'[t] = AfterVerify(t)
            /\ UNCHANGED << cacheVars, cached, resp, jwks, key, fail, fbSeen, got >>]_vars

\* C11 witness: in JWKS mode a call with the empty token has returned the
\* 'no token' outcome without a key document or a key
C11_Witness ==
    \E t \in Threads :
        /\ pc[t] = "done"
        /\ op[t] = "verify"
        /\ tok[t] = TokEmpty
        /\ JWT_PUBLIC_KEY = None
        /\ result[t] = Invalid("No token provided")
        /\ jwks[t] = None
        /\ key[t] = None
        /\ fail[t] = ""

\* verify_jwt_token has returned a triple to thread t (it did not raise)
VerifyReturned(t) ==
    /\ op[t] \in {"verify"} \cup RequestOps
    /\ pc[t] \in {"done", "auth_result", "gate_result", "drf_respond", "require"}
    /\ result[t] # None
    /\ result[t].t = "result"

\* the key the resolver gave for the token of thread t: the static key when
\* it is configured, else the key get_public_key returned (None = no key)
ResolvedKey(t) == IF JWT_PUBLIC_KEY # None THEN JWT_PUBLIC_KEY ELSE key[t]

\* the token of thread t is a JWT signed by the private key of k
SignedBy(t, k) == tok[t].t = "jwt" /\ k # None /\ tok[t].sig = k.mat

C13_WrongKeyIsBadSignature ==
    \A t \in Threads :
        (/\ VerifyReturned(t)
         /\ tok[t].t = "jwt"
         /\ ResolvedKey(t) # None
         /\ ~SignedBy(t, ResolvedKey(t)))
        => result[t] = Invalid("Invalid token: Signature verification failed.")

\* C13 witness: a token of kid k1 that is expired, has a foreign issuer and
\* was signed by another key was refused for its signature
C13_Witness ==
    \E t \in Threads :
        /\ VerifyReturned(t)
        /\ tok[t] = TokForgedExpired
        /\ JWT_PUBLIC_KEY = None
        /\ key[t] = Key("m1")
        /\ result[t] = Invalid("Invalid token: Signature verification failed.")

\* C14: for a token signed by the resolved key whose exp is in the past,
\* verify_jwt_token returns (False, None, 'Token has expired').
C14_ExpiredIsInvalid ==
    \A t \in Threads :
        (/\ VerifyReturned(t)
         /\ SignedBy(t, ResolvedKey(t))
         /\ Claims(tok[t]).exp = "past")
        => result[t] = Invalid("Token has expired")

\* C14 witness: a correctly signed token that is expired and has a foreign
\* issuer was refused as expired
C14_Witness ==
    \E t \in Threads :
        /\ VerifyReturned(t)
        /\ tok[t] = TokExpiredBadClaims
        /\ key[t] = Key("m1")
        /\ ~result[t].is_valid
        /\ result[t].payload = None
        /\ result[t].error = "Token has expired"

\* C15: every triple verify_jwt_token returns is (True, payload, None) with
\* a payload, or (False, None, reason) with a non-empty reason.
C15_ValidXorInvalid ==
    \A t \in Threads :
        VerifyReturned(t) =>
            /\ result[t].is_valid <=> result[t].payload # None
            /\ result[t].is_valid <=> result[t].error = "None"
            /\ ~result[t].is_valid => result[t].error # ""

\* C15 witness: a token whose kid is in no entry of the document was
\* refused with a reason and without payload
C15_Witness ==
    \E t \in Threads :
        /\ VerifyReturned(t)
        /\ tok[t].t = "jwt"
        /\ result[t].is_valid = FALSE
        /\ result[t].payload = None
        /\ result[t].error = "Could not find public key for token"

\* the header is absent or empty, or is not exactly two parts of which the
\* first is 'bearer' in some case
NotBearerForm(h) ==
    \/ h = << >>
    \/ Len(Split(h)) # 2
    \/ Split(h)[1] \notin {W("Bearer"), W("bearer"), W("BEARER")}

\* C16: for a request without Authorization header, or with a header that
\* is not two whitespace-separated parts with first part 'bearer' in any
\* case, authenticate returns None: verify_jwt_token is not called and no
\* AuthenticationFailed is raised.
C16_NonBearerIsNoAttempt ==
    \A t \in Threads :
        (/\ op[t] = "authenticate"
         /\ pc[t] # "authenticate"
         /\ NotBearerForm(auth_header[t]))
        => /\ pc[t] = "done"
           /\ ret[t] = None
           /\ token_str[t] = NotCalled
           /\ result[t] = None

\* C16 witness: authenticate returned None for 'Basic dXNlcjpwYXNz'
C16_Witness ==
    \E t \in Threads :
        /\ op[t] = "authenticate"
        /\ pc[t] = "done"
        /\ auth_header[t] = << W("Basic"), SP, W("dXNlcjpwYXNz") >>
        /\ ret[t] = None
        /\ token_str[t] = NotCalled

\* C17: for a request with a header 'Bearer <token>', authenticate returns
\* a pair only when verify_jwt_token returned (True, payload, None) for the
\* token of the header, and the pair is (JWTUser(payload), that token);
\* when verify_jwt_token returned (False, None, reason) it raises
\* AuthenticationFailed(reason) and returns nothing.
C17_AdapterFailsClosed ==
    \A t \in Threads :
        (/\ op[t] = "authenticate"
         /\ pc[t] = "done"
         /\ ~NotBearerForm(auth_header[t]))
        => LET word == Split(auth_header[t])[2] IN
           /\ ret[t] # None
           /\ ret[t].t = "tuple" =>
                 /\ VerifyReturned(t)
                 /\ result[t].is_valid
                 /\ token_str[t] = Called(<< word >>)
                 /\ tok[t] = word
                 /\ ret[t].user.claims = result[t].payload
                 /\ ret[t].user.id = result[t].payload.sub
                 /\ ret[t].user.email = result[t].payload.email
                 /\ ret[t].user.role = result[t].payload.role
                 /\ ret[t].token = << word >>
           /\ (VerifyReturned(t) /\ ~result[t].is_valid) =>
                 ret[t] = AuthenticationFailed(result[t].error)

\* C17 witness: 'Bearer <token>' with a valid token of kid k1 gave the pair
\* of the user of its claims and the token
C17_Witness ==
    \E t \in Threads :
        /\ op[t] = "authenticate"
        /\ pc[t] = "done"
        /\ auth_header[t] = BearerHeader(TokK1)
        /\ ret[t] = Pair(JWTUser(Claims(TokK1)), << TokK1 >>)
        /\ ret[t].user.email = "test@example.com"

\* the path begins with '/health/', '/ready/', '/admin/' or '/api/'
BeginsPublic(p) ==
    /\ Len(p) >= 3
    /\ p[1] = "/"
    /\ p[2] \in {"health", "ready", "admin", "api"}
    /\ p[3] = "/"

\* C18: the step of the middleware on a path that begins with an entry of
\* PUBLIC_PATHS calls the handler at once, whatever the header: it does not
\* call verify_jwt_token, leaves the cache as it is and sets neither
\* jwt_user nor jwt_error; on any other path the middleware either starts
\* a verification or sets jwt_user, so that the request is not exempted.
C18_PublicPathSkipsVerification ==
    [][\A t \in Threads :
         (op[t] = "gate" /\ pc[t] = "gate" /\ pc'[t] # "gate") =>
            IF BeginsPublic(path[t])
              THEN /\ pc'[t] = "done"
                   /\ handled'[t] = 1
                   /\ ret'[t] = Response
                   /\ token_str'[t] = NotCalled
                   /\ result'[t] = None
                   /\ jwt_user'[t] = Absent
                   /\ jwt_error'[t] = "absent"
                   /\ UNCHANGED << cacheVars, cached, resp, jwks, key, fail >>
              ELSE \/ pc'[t] = "verify" /\ token_str'[t].called /\ handled'[t] = 0
                   \/ pc'[t] = "done" /\ jwt_user'[t] = None]_vars

\* C18 witness: a request for '/api/reviews/' with a valid bearer token went
\* to the handler without verification and without jwt_user
C18_Witness ==
    \E t \in Threads :
        /\ op[t] = "gate"
        /\ pc[t] = "done"
        /\ path[t] = << "/", "api", "/", "reviews", "/" >>
        /\ auth_header[t] = BearerHeader(TokK1)
        /\ handled[t] = 1
        /\ token_str[t] = NotCalled
        /\ jwt_user[t] = Absent

\* C19: on a path that is not public the middleware never aborts: when the
\* request has left it, the handler was called exactly once and its
\* response returned, jwt_user is a JWTUser exactly when verify_jwt_token
\* returned a valid outcome, and after an invalid outcome jwt_user is None
\* and jwt_error is the reason.
C19_GateNeverAborts ==
    \A t \in Threads :
        (/\ op[t] = "gate"
         /\ pc[t] = "done"
         /\ ~BeginsPublic(path[t]))
        => /\ handled[t] = 1
           /\ ret[t] = Response
           /\ (jwt_user[t] # None /\ jwt_user[t] # Absent)
                 <=> (VerifyReturned(t) /\ result[t].is_valid)
           /\ (VerifyReturned(t) /\ ~result[t].is_valid)
                 => (jwt_user[t] = None /\ jwt_error[t] = result[t].error)

\* C20: on a path that is not public the middleware calls verify_jwt_token
\* for a header exactly when authenticate would, and with the same string:
\* for exactly two parts with first part 'bearer' in any case, with the
\* second part as the token.
C20_GateVerifiesAsAdapter ==
    \A t \in Threads :
        (/\ op[t] = "gate"
         /\ pc[t] # "gate"
         /\ ~BeginsPublic(path[t]))
        => /\ token_str[t].called <=> AdapterAttempts(auth_header[t])
           /\ token_str[t].called => token_str[t].s = AdapterToken(auth_header[t])
           /\ (~AdapterAttempts(auth_header[t]) /\ pc[t] = "done") => jwt_error[t] = "absent"

\* the state of the request thread t serves, in the state machine
\* NoAuthAttempted -> TokenPresent -> Verifying -> Authenticated | Rejected:
\* the header is not yet examined; a token was taken from the header and
\* handed to verify_jwt_token; verify_jwt_token is running or its outcome
\* is not yet acted upon; and, when the request has left the Adapter or the
\* Gate, what it left behind.  A request that ended by an exception out of
\* verify_jwt_token is still Verifying.
Phase(t) ==
    IF op[t] \notin {"authenticate", "gate"} THEN "NoRequest"
    ELSE IF pc[t] \in {"authenticate", "gate"} THEN "NoAuthAttempted"
    ELSE IF pc[t] = "verify" THEN "TokenPresent"
    ELSE IF pc[t] # "done" THEN "Verifying"
    ELSE IF ~token_str[t].called
      THEN IF op[t] = "gate" THEN "PassedThrough" ELSE "NoAuthAttempted"
    ELSE IF result[t] = None \/ result[t].t = "raise" THEN "Verifying"
    ELSE IF op[t] = "authenticate"
      THEN IF ret[t].t = "tuple" THEN "Authenticated" ELSE "Rejected"
    ELSE IF jwt_user[t] \notin {None, Absent} THEN "Authenticated" ELSE "Rejected"

\* C21: every request the Adapter or the Gate serves goes NoAuthAttempted,
\* TokenPresent, Verifying and then Authenticated (only with a valid outcome
\* of verify_jwt_token) or Rejected (only with an invalid outcome); only
\* the Gate passes a request through without attempt; a request ends in
\* one of these terminal states (or, in the Adapter, without attempt) and
\* never ends while Verifying.
C21_RequestStateMachine ==
    [][\A t \in Threads :
         Phase(t)' # Phase(t) =>
            LET from == Phase(t)
                to   == Phase(t)'
            IN  \/ from = "NoRequest" /\ to = "NoAuthAttempted"
                \/ from = "NoAuthAttempted" /\ to = "TokenPresent"
                \/ from = "NoAuthAttempted" /\ to = "PassedThrough" /\ op[t] = "gate"
                \/ from = "NoAuthAttempted" /\ to = "NoRequest" /\ op[t] = "authenticate"
                \/ from = "TokenPresent" /\ to = "Verifying"
                \/ from = "Verifying" /\ to = "Authenticated" /\ result'[t].is_valid
                \/ from = "Verifying" /\ to = "Rejected" /\ ~result'[t].is_valid
                \/ from \in {"Authenticated", "Rejected", "PassedThrough"} /\ to = "NoRequest"]_vars

\* C22: verify_jwt_token never raises: whatever the token, the outcome of
\* the fetch and the interleaving with set() and clear() of other threads,
\* a finished call has returned a triple (is_valid, payload, error).
C22_VerifyNeverRaises ==
    \A t \in Threads :
        (/\ op[t] \in {"verify", "authenticate", "gate"}
         /\ pc[t] = "done"
         /\ result[t] # None)
        => result[t].t = "result"

\* C23: when the published key set last changed at instant r and a call of
\* get_jwks_keys that began after r + TTL has returned without a failed
\* fetch, the document it returned is the published one, under every
\* interleaving with the fetches and set() calls of other threads.
C23_RotationSeenWithinTTL ==
    \A t \in Threads :
        (/\ pc[t] = "scan"
         /\ lateStart[t]
         /\ fail[t] = ""
         /\ jwks[t] # None)
        => jwks[t] = JDict(published)

\* C24: on a view protected by JWTAuthentication and IsAuthenticated the
\* body of the view runs only when verify_jwt_token returned a valid
\* outcome for the bearer token of the header; a request without header,
\* with a header that is not 'Bearer <token>', or with a token that has an
\* invalid outcome is answered 401 with the challenge
\* 'Bearer realm="watson-api"' and the body does not run.
C24_AdapterRouteAnswers401 ==
    \A t \in Threads :
        op[t] = "drf" =>
            /\ http[t].ran =>
                  /\ ~NotBearerForm(auth_header[t])
                  /\ VerifyReturned(t)
                  /\ result[t].is_valid
                  /\ tok[t] = Split(auth_header[t])[2]
                  /\ http[t].status = 200
            /\ (/\ pc[t] = "done"
                /\ \/ NotBearerForm(auth_header[t])
                   \/ VerifyReturned(t) /\ ~result[t].is_valid)
               => /\ http[t].status = 401
                  /\ http[t].www = "Bearer realm=\"watson-api\""
                  /\ ~http[t].ran

\* C24 witness: a request with an expired bearer token was answered 401 with
\* the challenge and the reason, and the body of the view did not run
C24_Witness ==
    \E t \in Threads :
        /\ op[t] = "drf"
        /\ pc[t] = "done"
        /\ auth_header[t] = BearerHeader(TokExpired)
        /\ http[t] = HttpResponse(401, FALSE, AuthenticateHeader, "Token has expired")

\* C25: a view wrapped by require_jwt_auth runs exactly when the request
\* has a jwt_user that is not None; otherwise the wrapper answers 401
\* without calling the view, with the jwt_error the middleware stored as
\* detail, and with 'Authentication required' when none was stored.
C25_RequireJwtAuth ==
    \A t \in Threads :
        (/\ op[t] = "gate_view"
         /\ pc[t] = "done"
         /\ http[t] # NoResponse)
        => /\ http[t].ran <=> (jwt_user[t] # Absent /\ jwt_user[t] # None)
           /\ http[t].ran => http[t].status = 200
           /\ ~http[t].ran =>
                 /\ http[t].status = 401
                 /\ jwt_error[t] # "absent" => http[t].detail = jwt_error[t]
                 /\ jwt_error[t] = "absent" => http[t].detail = "Authentication required"

\* C25 witness: behind the middleware a request with an expired bearer token
\* was answered 401 by the wrapper with the stored reason
C25_Witness ==
    \E t \in Threads :
        /\ op[t] = "gate_view"
        /\ pc[t] = "done"
        /\ jwt_user[t] = None
        /\ jwt_error[t] = "Token has expired"
        /\ http[t] = HttpResponse(401, FALSE, "", "Token has expired")

\* why get_public_key gave no key to the finished call of thread t: the
\* header has no kid, the fetch failed and there was no fallback, no entry
\* has the kid, or the first entry with the kid has malformed material
ResolverError(t) ==
    IF ~VerifyReturned(t) \/ tok[t].t # "jwt" \/ key[t] # None \/ JWT_PUBLIC_KEY # None
      THEN "none"
    ELSE IF tok[t].kid = "" THEN "NoKeyId"
    ELSE IF jwks[t] = None THEN "none"
    ELSE IF fail[t] # "" /\ jwks[t] = EmptyDict THEN "Unavailable"
    ELSE IF Matches(KeysOf(jwks[t]), tok[t].kid) = {} THEN "UnknownKeyId"
    ELSE "KeyConstructionFailed"

\* C26: the reason of an invalid outcome tells which resolver error
\* occurred: two calls that failed for different ones of NoKeyId,
\* UnknownKeyId, KeyConstructionFailed and Unavailable carry different
\* reasons.
C26_ReasonsTellResolverErrors ==
    \A t, u \in Threads :
        (/\ ResolverError(t) # "none"
         /\ ResolverError(u) # "none"
         /\ ResolverError(t) # ResolverError(u))
        => result[t].error # result[u].error

\* C27: requests.get runs only inside a call of get_jwks_keys whose get()
\* returned None, that is not within the TTL of the last set(); a call
\* runs it at most once; and a fetched document goes on to set().  A call
\* whose get() falls within the TTL of the last set() makes no fetch.
C27_FetchOnlyOnMissOnce ==
    [][\A t \in Threads :
         /\ (pc'[t] = "fetch" /\ pc[t] # "fetch") =>
               /\ pc[t] = "jwks_cached"
               /\ cached[t] = None
               /\ fetches[t] = 0
               /\ got[t].w.op = "set" =>
                     ~(got[t].w.at <= got[t].at
                        /\ got[t].at <= got[t].w.at + JWKS_CACHE_TTL_SECONDS)
         /\ fetches'[t] # fetches[t] =>
               \/ fetches'[t] = 0 /\ pc'[t] = "idle"
               \/ /\ pc[t] = "fetch"
                  /\ fetches'[t] = 1
                  /\ pc'[t] # "fetch"
                  /\ resp'[t] # None => pc'[t] = "set_acquire"]_vars

\* C27 witness: a call of get_jwks_keys returned the document of the last
\* set() from the cache without a fetch
C27_Witness ==
    \E t \in Threads :
        /\ pc[t] = "scan"
        /\ JWT_PUBLIC_KEY = None
        /\ fetches[t] = 0
        /\ lastWrite.op = "set"
        /\ jwks[t] = lastWrite.doc
        /\ now <= lastWrite.at + JWKS_CACHE_TTL_SECONDS

\* C28: the step of a failed fetch (network error, timeout, HTTP error
\* status, undecodable body) and the steps of the fallback leave _keys and
\* _expires_at as they are: a stale document served as fallback keeps its
\* expiry, so that get() still returns None afterwards.
C28_FailedFetchKeepsCache ==
    [][\A t \in Threads :
         (\/ pc[t] = "fetch" /\ pc'[t] # "fetch" /\ resp'[t] = None
          \/ pc[t] \in {"fb_check", "fb_use"} /\ pc'[t] # pc[t])
         => /\ keys' = keys
            /\ expires_at' = expires_at
            /\ CacheGetResult(keys, expires_at, now) = None
                  => CacheGetResult(keys', expires_at', now') = None]_vars

\* C28 witness: a document that had outlived its TTL was served as
\* fallback, it is still in the cache with the expiry its set() gave it,
\* and get() would return None
C28_Witness ==
    \E t \in Threads :
        /\ pc[t] = "scan"
        /\ fail[t] = "request"
        /\ fbStale[t]
        /\ jwks[t] # None
        /\ jwks[t] = keys
        /\ lastWrite.op = "set"
        /\ expires_at = lastWrite.at + JWKS_CACHE_TTL_SECONDS
        /\ CacheGetResult(keys, expires_at, now) = None

CarriesValidBearer(t) ==
    /\ ~NotBearerForm(auth_header[t])
    /\ IF StaticConfigured
         THEN Decode(Parse(AdapterToken(auth_header[t])), JWT_PUBLIC_KEY).is_valid
         ELSE /\ result[t] # None
              /\ result[t].t = "result"
              /\ result[t].is_valid

====
